---- MODULE Spec2Model ----
(***************************************************************************)
(* WHRequestHandler: the per-endpoint promise queue and the rate-limit     *)
(* scheduler of the webhook relay.                                         *)
(*                                                                         *)
(* One step of the model is one task of the JavaScript event loop (a call  *)
(* of request(), the arrival of a transport response, the firing of a      *)
(* timer) together with every microtask it triggers: promise reactions run *)
(* to completion before the next task, so no other event can be observed   *)
(* in between.                                                             *)
(*                                                                         *)
(* Times are in clock ticks.  The bitwise operators of JavaScript work on  *)
(* 32-bit integers; here the word is IntBits wide, and the clock starts    *)
(* either at 0 (a simulated clock) or beyond the word (a wall clock: the   *)
(* millisecond epoch time does not fit into 32 bits).                      *)
(*                                                                         *)
(* The gitlab route, which hands one inbound event to request() for the    *)
(* configured webhooks, is modelled on its own in SpecRelay.               *)
(***************************************************************************)
EXTENDS Integers, FiniteSets, Sequences, TLC

\* ------------------------------------------------------------ bounds
NReq == 3
MaxRetry == 1
MaxTicks == 1
IntBits == 4
MaxWebhooks == 3
\* The number of requests submitted under SpecLive.
LiveReq == 2

ResetDeltas == {0, 2}
RetryAfters == {1}
OtherStatuses == {500}

Endpoints == {"e1", "e2"}
\* The endpoints are interchangeable: the first request names this one.
FirstEndpoint == "e1"
GlobalKey == "global"
NoEp == "none"
NoReq == 0
Req == 1..NReq

VARIABLES now, rateLimitCollection, queueCollection, req, relay

vars == <<now, rateLimitCollection, queueCollection, req, relay>>

\* ------------------------------------------------------------ integers
RECURSIVE Pow2(_)
Pow2(n) == IF n = 0 THEN 1 ELSE 2 * Pow2(n - 1)

Wrap == Pow2(IntBits - 1)
Word == 2 * Wrap

\* ToInt32 of ECMAScript, on a word of IntBits bits.
ToInt32(x) == ((x + Wrap) % Word) - Wrap

ToUint32(x) == x % Word

RECURSIVE BitsXor(_, _, _)
BitsXor(a, b, n) ==
    IF n = 0 THEN 0
    ELSE (((a % 2) + (b % 2)) % 2) + 2 * BitsXor(a \div 2, b \div 2, n - 1)

RECURSIVE BitsAnd(_, _, _)
BitsAnd(a, b, n) ==
    IF n = 0 THEN 0
    ELSE ((a % 2) * (b % 2)) + 2 * BitsAnd(a \div 2, b \div 2, n - 1)

\* a ^ b
Xor(a, b) == ToInt32(BitsXor(ToUint32(a), ToUint32(b), IntBits))

\* a & b
And(a, b) == ToInt32(BitsAnd(ToUint32(a), ToUint32(b), IntBits))

\* -(a < b): -1 when a < b, otherwise -0
NegLess(a, b) == IF a < b THEN -1 ELSE 0

\* a ^ ((a ^ b) & -(a < b))
BitMax(a, b) == Xor(a, And(Xor(a, b), NegLess(a, b)))

Max(a, b) == IF a < b THEN b ELSE a

\* ------------------------------------------------------------ maps
Has(m, k) == k \in DOMAIN m

MapSet(m, k, v) == [x \in (DOMAIN m) \cup {k} |-> IF x = k THEN v ELSE m[x]]

MapDelete(m, k) == [x \in (DOMAIN m) \ {k} |-> m[x]]

\* m.get(k) || 0
GetOr0(m, k) == IF Has(m, k) THEN m[k] ELSE 0

EmptyMap == [x \in {} |-> 0]

\* ------------------------------------------------------------ transport
NoOutcome == [kind |-> "none", status |-> 0]

\* What the caller of request() sees of a response or an error.
Seen(o) == [kind |-> o.kind, status |-> o.status]

\* The outcomes superagent can deliver at time t: a 2xx response (with or
\* without remaining quota), a 429 error, another error.  reset is the
\* x-ratelimit-reset header times 1000, retry the retry-after header.
OkOutcomes(t) ==
    {[kind |-> "ok", status |-> 200, remaining0 |-> FALSE,
      reset |-> 0, retry |-> 0, global |-> FALSE]}
    \cup {[kind |-> "ok", status |-> 200, remaining0 |-> TRUE,
           reset |-> t + d, retry |-> r, global |-> g] :
            d \in ResetDeltas, r \in RetryAfters, g \in BOOLEAN}

ErrOutcomes(t) ==
    {[kind |-> "err", status |-> 429, remaining0 |-> FALSE,
           reset |-> t + d, retry |-> r, global |-> g] :
            d \in ResetDeltas, r \in RetryAfters, g \in BOOLEAN}
    \cup {[kind |-> "err", status |-> s, remaining0 |-> FALSE,
           reset |-> 0, retry |-> 0, global |-> FALSE] : s \in OtherStatuses}

Outcomes(t) == OkOutcomes(t) \cup ErrOutcomes(t)

\* ------------------------------------------------------------ rate limits
\* (discordHeader === 0) || (statusCode === 429)
RateLimited(o, statusCode) == o.remaining0 \/ statusCode = 429

GlobalLockoutMax(retryAt, timestamp) == timestamp

\* rateLimitCollection.set('global', discordRetryAfter)
GlobalLockout(retryAt, timestamp) == retryAt

\* rateLimitCollection.set(endpoint, timestamp)
EndpointLockout(retryAt, timestamp) == timestamp

SetOrEditIgnoresEdit(c, endpoint, o, edit, statusCode, t) ==
    IF RateLimited(o, statusCode)
    THEN LET discordRetryAfter == o.retry + t
             timestamp == BitMax(o.reset, discordRetryAfter)
         IN  IF o.global
             THEN MapSet(c, GlobalKey, GlobalLockout(discordRetryAfter, timestamp))
             ELSE MapSet(c, endpoint, EndpointLockout(discordRetryAfter, timestamp))
    ELSE MapDelete(c, endpoint)

SetOrEditRateLimitCache(c, endpoint, o, edit, statusCode, t) ==
    IF RateLimited(o, statusCode)
    THEN LET discordResetTime == o.reset
             discordRetryAfter == o.retry + t
             timestamp == BitMax(discordResetTime, discordRetryAfter)
         IN  IF o.global
             THEN MapSet(c, GlobalKey, GlobalLockout(discordRetryAfter, timestamp))
             ELSE MapSet(c, endpoint, EndpointLockout(discordRetryAfter, timestamp))
    ELSE IF edit THEN MapDelete(c, endpoint) ELSE c

\* ------------------------------------------------------------ requests
Settled(r) == r.pc \in {"resolved", "rejected"}

Outstanding(r) == r.pc \in {"queued", "flight", "timer", "retry"}

\* An argument that was not passed, or an object that is not there.
Undefined == <<"undefined", NoReq>>

NoArgs ==
    [requestURL |-> <<"", NoEp, "">>, method |-> "", headers |-> Undefined,
     query |-> "", body |-> Undefined, name |-> "undefined"]

\* conditionalsHandler(endpoint, requestURL, 'post', headers, {}, body, name)
\* as request() calls it for request i of endpoint e: the URL is built from
\* the endpoint, headers and body are the objects of the caller.
RequestArgs(e, i) ==
    [requestURL |-> <<"baseURL", e, "">>, method |-> "post",
     headers |-> <<"headers", i>>, query |-> "{}", body |-> <<"body", i>>,
     name |-> e]

ReentryArgsNoBody(a) == [a EXCEPT !.name = "undefined", !.body = Undefined]

\* conditionalsHandler(endpoint, requestURL, method, headers, query, body)
\* after a 429: the arguments of the running call again, name left out.
ReentryArgs(a) == [a EXCEPT !.name = "undefined"]

\* What superagent(requestURL, method, headers, query, body) puts on the wire:
\* superagent(method, requestURL).set(headers || {}).query(...).send(fields)
Payload(a) ==
    [url |-> a.requestURL, method |-> a.method,
     headers |-> IF a.headers = Undefined THEN <<"{}", NoReq>> ELSE a.headers,
     body |-> a.body]

NoPayload == Payload(NoArgs)

NewRequest ==
    [pc |-> "new", ep |-> NoEp, pred |-> NoReq, path |-> "none", fireAt |-> 0,
     attempts |-> 0, n429 |-> 0, nOther |-> 0, first |-> NoOutcome,
     result |-> NoOutcome, args |-> NoArgs, sent |-> NoPayload,
     firstSent |-> NoPayload]

\* superagent(requestURL, method, headers, query, body) is called
StartAttempt(r, path) ==
    [r EXCEPT !.pc = "flight", !.path = path, !.fireAt = 0, !.attempts = @ + 1,
              !.sent = Payload(r.args),
              !.firstSent = IF r.attempts = 0 THEN Payload(r.args) ELSE @]

\* The synchronous part of conditionalsHandler, up to its first suspension.
ConditionalsHandler(r, c, t) ==
    IF ~Has(c, r.ep) /\ ~Has(c, GlobalKey)
    THEN StartAttempt(r, "imm")
    ELSE LET endpointTimestamp == GetOr0(c, r.ep)
             globalTimestamp == GetOr0(c, GlobalKey)
             timestamp == BitMax(endpointTimestamp, globalTimestamp)
         IN  IF timestamp >= t
             THEN [r EXCEPT !.pc = "timer", !.fireAt = timestamp]
             ELSE StartAttempt(r, "exp")

\* ------------------------------------------------------------ the queue
\* const endpoint = `${id}/${token}`: the key of queueCollection
QueueKeyShared(endpoint) == "all"

QueueKey(endpoint) == endpoint

\* The reactions of queue.then(...) that run when request i settles: the tail
\* request.catch(() => {}) is fulfilled on either outcome.
WaitersOnSuccess(i, kind) ==
    IF kind = "rejected" THEN {}
    ELSE {k \in Req : req[k].pc = "queued" /\ req[k].pred = i}

Waiters(i, kind) == {k \in Req : req[k].pc = "queued" /\ req[k].pred = i}

FinallyKeepsEntry(q, endpoint, i) == q

\* finally { if (queueCollection.get(endpoint) === tail) delete }
Finally(q, endpoint, i) ==
    IF Has(q, QueueKey(endpoint)) /\ q[QueueKey(endpoint)] = i
    THEN MapDelete(q, QueueKey(endpoint))
    ELSE q

\* error.status === 429 in the catch of conditionalsHandler
AnyError(o) == o.kind = "err"

NoError(o) == FALSE

IsRateLimitError(o) == o.kind = "err" /\ o.status = 429

\* error.status === 429 in the catch of the timer callback
AnyTimerError(o) == o.kind = "err"

IsRateLimitErrorTimer(o) == o.kind = "err" /\ o.status = 429

\* An attempt of r has ended with outcome o.
Ended(r, o) ==
    IF o.kind = "err" /\ o.status = 429
    THEN [r EXCEPT !.n429 = @ + 1]
    ELSE [r EXCEPT !.nOther = @ + 1,
                   !.first = IF r.nOther = 0 THEN Seen(o) ELSE @]

\* The catch of a 429 calls conditionalsHandler again for the request.
Reenter(r) == [r EXCEPT !.args = ReentryArgs(@)]

\* Request i settles: its promise takes the outcome, the finally block of
\* request() runs, and the request chained on its tail enters the scheduler.
Settle(i, r, kind, o, c, q) ==
    /\ rateLimitCollection' = c
    /\ queueCollection' = Finally(q, r.ep, i)
    /\ req' = [k \in Req |->
                 IF k = i THEN [r EXCEPT !.pc = kind, !.result = Seen(o)]
                 ELSE IF k \in Waiters(i, kind)
                      THEN ConditionalsHandler(req[k], c, now)
                      ELSE req[k]]
    /\ UNCHANGED <<now, relay>>

\* ------------------------------------------------------------ gitlab route
\* The configured webhooks: of each, whether id and token are set.
Webhook == [id : BOOLEAN, token : BOOLEAN]

RECURSIVE SeqsUpTo(_, _)
SeqsUpTo(S, n) ==
    IF n = 0 THEN {<<>>}
    ELSE LET shorter == SeqsUpTo(S, n - 1)
         IN  shorter \cup {Append(w, x) : w \in shorter, x \in S}

WebhookLists == SeqsUpTo(Webhook, MaxWebhooks)

\* if (webhook.id && webhook.token)
Valid(w) == w.id /\ w.token

\* No event is being handled.  called lists, in order, the webhooks
\* request() was invoked for; logged those whose failure was logged.
NoRelay ==
    [pc |-> "idle", webhooks |-> <<>>, authorized |-> FALSE, awaiting |-> NoReq,
     called |-> <<>>, logged |-> <<>>, reply |-> "none"]

\* for (const webhook of requestHandler.webhooks): the first webhook at or
\* after position k that has id and token, or NoReq when the loop runs out.
NextValid(ws, k) ==
    IF \E n \in k..Len(ws) : Valid(ws[n])
    THEN CHOOSE n \in k..Len(ws) : Valid(ws[n]) /\ \A m \in k..(n - 1) : ~Valid(ws[m])
    ELSE NoReq

\* The loop runs from position k to its next suspension or to its end.
RunLoop(r, k) ==
    LET n == NextValid(r.webhooks, k)
    IN  IF n = NoReq
        THEN [r EXCEPT !.pc = "done", !.reply = "Success!"]
        ELSE [r EXCEPT !.pc = "awaiting", !.awaiting = n, !.called = Append(@, n)]

InitRelay ==
    /\ now = 0
    /\ rateLimitCollection = EmptyMap
    /\ queueCollection = EmptyMap
    /\ req = [i \in Req |-> NewRequest]
    /\ \E ws \in WebhookLists : \E a \in BOOLEAN :
           relay = [NoRelay EXCEPT !.webhooks = ws, !.authorized = a]

\* gitlab(req, res) is called: refused, or the loop runs to its first await.
Gitlab ==
    /\ relay.pc = "idle"
    /\ relay' = IF ~relay.authorized
                THEN [relay EXCEPT !.pc = "done", !.reply = "Unauthorized!"]
                ELSE RunLoop(relay, 1)
    /\ UNCHANGED <<now, rateLimitCollection, queueCollection, req>>

\* return await requestHandler.request(...): the promise is fulfilled.
RequestResolved ==
    /\ relay.pc = "awaiting"
    /\ relay' = [relay EXCEPT !.pc = "done", !.awaiting = NoReq]
    /\ UNCHANGED <<now, rateLimitCollection, queueCollection, req>>

\* catch (err) { return Logger.fatal(...) }: the promise is rejected.
RequestRejected ==
    /\ relay.pc = "awaiting"
    /\ relay' = [relay EXCEPT !.pc = "done", !.awaiting = NoReq,
                              !.logged = Append(@, relay.awaiting)]
    /\ UNCHANGED <<now, rateLimitCollection, queueCollection, req>>

NextRelay == Gitlab \/ RequestResolved \/ RequestRejected

SpecRelay == InitRelay /\ [][NextRelay]_vars

\* ------------------------------------------------------------ actions
Init ==
    /\ now \in {0, Wrap}
    /\ rateLimitCollection = EmptyMap
    /\ queueCollection = EmptyMap
    /\ req = [i \in Req |-> NewRequest]
    /\ relay = NoRelay

\* request(webhook, req): chain on the stored tail, store the own tail.
Submit(e) ==
    \E i \in Req :
        /\ req[i].pc = "new"
        /\ \A j \in 1..(i - 1) : req[j].pc # "new"
        /\ i = 1 => e = FirstEndpoint
        /\ LET key == QueueKey(e)
               chained == Has(queueCollection, key)
                            /\ ~Settled(req[queueCollection[key]])
               r0 == [req[i] EXCEPT !.ep = e, !.args = RequestArgs(e, i)]
           IN  /\ queueCollection' = MapSet(queueCollection, key, i)
               /\ req' = [req EXCEPT ![i] =
                            IF chained
                            THEN [r0 EXCEPT !.pc = "queued",
                                            !.pred = queueCollection[key]]
                            ELSE ConditionalsHandler(r0, rateLimitCollection, now)]
        /\ UNCHANGED <<now, rateLimitCollection, relay>>

\* The transport call of request i returns a response.
ResponseOk(i, o) ==
    /\ req[i].pc = "flight"
    /\ o \in OkOutcomes(now)
    /\ LET r == Ended(req[i], o)
           c == SetOrEditRateLimitCache(rateLimitCollection, r.ep, o,
                                        r.path # "imm", o.status, now)
           q == IF r.path = "imm"
                THEN MapDelete(queueCollection, QueueKey(r.ep))
                ELSE queueCollection
       IN  Settle(i, r, "resolved", o, c, q)

\* The transport call of request i fails with 429.
Response429(i, o) ==
    /\ req[i].pc = "flight"
    /\ o \in ErrOutcomes(now)
    /\ o.status = 429 => req[i].n429 < MaxRetry
    /\ IF req[i].path = "tmr" THEN IsRateLimitErrorTimer(o) ELSE IsRateLimitError(o)
    /\ LET r == Reenter(Ended(req[i], o))
           c == SetOrEditRateLimitCache(rateLimitCollection, r.ep, o, FALSE, 429, now)
       IN  /\ rateLimitCollection' = c
           /\ req' = [req EXCEPT ![i] =
                        IF r.path = "tmr"
                        THEN ConditionalsHandler(r, c, now)
                        ELSE [r EXCEPT !.pc = "retry"]]
    /\ UNCHANGED <<now, queueCollection, relay>>

\* The transport call of request i fails with another error.
ResponseError(i, o) ==
    /\ req[i].pc = "flight"
    /\ o \in ErrOutcomes(now)
    /\ o.status = 429 => req[i].n429 < MaxRetry
    /\ ~(IF req[i].path = "tmr" THEN IsRateLimitErrorTimer(o) ELSE IsRateLimitError(o))
    /\ Settle(i, Ended(req[i], o), "rejected", o, rateLimitCollection, queueCollection)

\* The timer armed for the lockout fires: the call is made at once.
TimerFire(i) ==
    /\ req[i].pc = "timer"
    /\ now >= req[i].fireAt
    /\ req' = [req EXCEPT ![i] = StartAttempt(req[i], "tmr")]
    /\ UNCHANGED <<now, rateLimitCollection, queueCollection, relay>>

\* setTimeout(..., 0) after a 429: conditionalsHandler is entered again.
RetryFire(i) ==
    /\ req[i].pc = "retry"
    /\ req' = [req EXCEPT ![i] = ConditionalsHandler(req[i], rateLimitCollection, now)]
    /\ UNCHANGED <<now, rateLimitCollection, queueCollection, relay>>

Tick ==
    /\ \E s \in {0, Wrap} : s <= now /\ now < s + MaxTicks
    /\ now' = now + 1
    /\ UNCHANGED <<rateLimitCollection, queueCollection, req, relay>>

Next ==
    \/ \E e \in Endpoints : Submit(e)
    \/ \E i \in Req : \E o \in OkOutcomes(now) : ResponseOk(i, o)
    \/ \E i \in Req : \E o \in ErrOutcomes(now) : Response429(i, o)
    \/ \E i \in Req : \E o \in ErrOutcomes(now) : ResponseError(i, o)
    \/ \E i \in Req : TimerFire(i)
    \/ \E i \in Req : RetryFire(i)
    \/ Tick

Spec == Init /\ [][Next]_vars

\* ------------------------------------------------------------ fairness
\* Time passes while a timer is armed that is not yet due.
TimerTick ==
    /\ \E i \in Req : req[i].pc = "timer" /\ now < req[i].fireAt
    /\ now' = now + 1
    /\ UNCHANGED <<rateLimitCollection, queueCollection, req, relay>>

\* The transport call of request i returns, one way or another.
Returns(i) ==
    \/ \E o \in OkOutcomes(now) : ResponseOk(i, o)
    \/ \E o \in ErrOutcomes(now) : Response429(i, o)
    \/ \E o \in ErrOutcomes(now) : ResponseError(i, o)

\* request() is called, at most LiveReq times.
SubmitLive(e) == req[LiveReq].pc = "new" /\ Submit(e)

NextLive ==
    \/ \E e \in Endpoints : SubmitLive(e)
    \/ \E i \in Req : Returns(i)
    \/ \E i \in Req : TimerFire(i)
    \/ \E i \in Req : RetryFire(i)
    \/ Tick
    \/ TimerTick

\* Every transport call returns and every timer fires (the clock reaches
\* the time a timer is armed for, and a due callback is run).  At most
\* MaxRetry calls of a request are answered with 429.
Fairness ==
    /\ WF_vars(TimerTick)
    /\ \A i \in Req :
          /\ WF_vars(Returns(i))
          /\ WF_vars(TimerFire(i))
          /\ WF_vars(RetryFire(i))

SpecLive == Init /\ [][NextLive]_vars /\ Fairness

\* ------------------------------------------------------------ properties
Submitted(i) == req[i].pc # "new"

\* An attempt (a transport call) of request i starts in this step.  Every
\* write of the rate-limit cache in a step precedes the call the step starts,
\* so the call is judged against the cache of the step's end.
Starts(i) == req'[i].attempts > req[i].attempts

\* Request j receives the outcome o of its transport call in this step.
Receives(j, o) == ResponseOk(j, o) \/ Response429(j, o) \/ ResponseError(j, o)

\* C1: FIFO per endpoint.  Requests are numbered in submission order; for two
\* requests a before b of one endpoint, b has made no transport call unless a
\* has settled (so a request submitted while an earlier one was outstanding
\* never calls the transport before the earlier one settles).
C1_FifoPerEndpoint ==
    \A a, b \in Req :
        (a < b /\ Submitted(a) /\ Submitted(b) /\ req[a].ep = req[b].ep
           /\ req[b].attempts >= 1)
        => Settled(req[a])

\* C2: delivered exactly once per call.  A settled request has exactly one
\* attempt that ended with a non-429 outcome, all its other attempts ended
\* with 429, and none is in flight or made later.
C2_DeliveredOnce ==
    \A i \in Req :
        Settled(req[i]) =>
            /\ req[i].nOther = 1
            /\ req[i].attempts = req[i].n429 + 1

C2_Witness ==
    \E i \in Req : Settled(req[i]) /\ req[i].attempts >= 2 /\ req[i].n429 >= 1

\* C3: global dominance.  When the cache holds a global lockout G and the
\* endpoint's own lockout is absent or earlier than G, no transport call for
\* the endpoint starts at a time before G.
C3_GlobalDominance ==
    [][\A i \in Req :
          (/\ Starts(i)
           /\ Has(rateLimitCollection', GlobalKey)
           /\ \/ ~Has(rateLimitCollection', req'[i].ep)
              \/ rateLimitCollection'[req'[i].ep] < rateLimitCollection'[GlobalKey])
          => now' >= rateLimitCollection'[GlobalKey]]_vars

\* C4: the endpoint lockout is respected.  While the cache holds an unlock
\* time T recorded for an endpoint, no transport call for that endpoint (of a
\* new request or of a retry) starts before T.
C4_EndpointLockout ==
    [][\A i \in Req :
          (Starts(i) /\ Has(rateLimitCollection', req'[i].ep))
          => now' >= rateLimitCollection'[req'[i].ep]]_vars

\* C5: lockout computation.  A rate-limited response not marked global stores
\* max(T_reset, now + T_retry) for the endpoint, whatever the size of the
\* timestamps.
C5_LockoutIsMax ==
    [][\A j \in Req : \A o \in Outcomes(now) :
          (RateLimited(o, o.status) /\ ~o.global /\ Receives(j, o))
          => /\ Has(rateLimitCollection', req[j].ep)
             /\ rateLimitCollection'[req[j].ep] = Max(o.reset, now + o.retry)]_vars

\* The entry of endpoint e is the same before and after the step.
EntryUnchanged(e) ==
    /\ Has(rateLimitCollection', e) = Has(rateLimitCollection, e)
    /\ Has(rateLimitCollection, e) => rateLimitCollection'[e] = rateLimitCollection[e]

\* C6 (as stated): a rate-limited response marked global stores
\* max(T_reset, now + T_retry) under the global key and leaves the endpoint's
\* own entry unchanged.
C6_GlobalIsMax ==
    [][\A j \in Req : \A o \in Outcomes(now) :
          (RateLimited(o, o.status) /\ o.global /\ Receives(j, o))
          => /\ Has(rateLimitCollection', GlobalKey)
             /\ rateLimitCollection'[GlobalKey] = Max(o.reset, now + o.retry)
             /\ EntryUnchanged(req[j].ep)]_vars

\* C6 (amended): a rate-limited response marked global stores now + T_retry,
\* the retry-after time alone, under the global key and leaves the endpoint's
\* own entry unchanged.
C6_GlobalIsRetryAfter ==
    [][\A j \in Req : \A o \in Outcomes(now) :
          (RateLimited(o, o.status) /\ o.global /\ Receives(j, o))
          => /\ Has(rateLimitCollection', GlobalKey)
             /\ rateLimitCollection'[GlobalKey] = now + o.retry
             /\ EntryUnchanged(req[j].ep)]_vars

C6_Witness ==
    /\ Has(rateLimitCollection, GlobalKey)
    /\ \E e \in Endpoints : Has(rateLimitCollection, e)
    /\ \E i \in Req : Settled(req[i])

\* C7: 429 is never surfaced.  No request is rejected with status 429, and a
\* settled request carries the outcome of its first attempt that did not end
\* with 429.
C7_Never429 ==
    \A i \in Req :
        /\ req[i].pc = "rejected" => req[i].result.status # 429
        /\ Settled(req[i]) =>
              /\ req[i].first # NoOutcome
              /\ req[i].first.status # 429
              /\ req[i].result = req[i].first

C7_Witness ==
    \E i \in Req :
        req[i].pc = "resolved" /\ req[i].n429 >= 1 /\ req[i].result.status = 200

\* C8: non-429 failures are not retried.  Once an attempt of a request has
\* failed with a status other than 429, the request is rejected with that
\* error and has made no other attempt than those answered with 429 before.
C8_FailureNotRetried ==
    \A i \in Req :
        req[i].first.kind = "err" =>
            /\ req[i].pc = "rejected"
            /\ req[i].result = req[i].first
            /\ req[i].nOther = 1
            /\ req[i].attempts = req[i].n429 + 1

C8_Witness ==
    \E i, k \in Req :
        /\ req[i].pc = "rejected" /\ req[i].path = "imm"
        /\ req[k].pc = "rejected" /\ req[k].path = "tmr" /\ req[k].n429 >= 1

GlobalInForce ==
    Has(rateLimitCollection, GlobalKey) /\ rateLimitCollection[GlobalKey] >= now

\* C10: endpoint independence.  (a) While another endpoint has an unsettled
\* request and no global lockout is in force, a request submitted for an
\* endpoint with no lockout and no unsettled request of its own starts its
\* transport call in the submitting step.  (b) No event of a request (its
\* submission, a response, a timer) changes a request of another endpoint.
C10_EndpointIndependence ==
    [][/\ \A e \in Endpoints :
             (/\ \E j \in Req : Outstanding(req[j]) /\ req[j].ep # e
              /\ \A j \in Req : Outstanding(req[j]) => req[j].ep # e
              /\ ~Has(rateLimitCollection, e)
              /\ ~GlobalInForce
              /\ Submit(e))
             => \E i \in Req :
                    /\ req[i].pc = "new"
                    /\ req'[i].pc = "flight"
                    /\ req'[i].attempts = 1
       /\ \A e \in Endpoints :
             Submit(e) =>
                 \A i \in Req : (Submitted(i) /\ req[i].ep # e) => req'[i] = req[i]
       /\ \A j \in Req :
             ((\E o \in Outcomes(now) : Receives(j, o)) \/ TimerFire(j) \/ RetryFire(j))
             => \A i \in Req : req[i].ep # req[j].ep => req'[i] = req[i]]_vars

C10_Witness ==
    \E i, j \in Req :
        /\ j < i
        /\ req[j].ep # req[i].ep
        /\ req[j].pc = "timer"
        /\ req[i].pc = "flight" /\ req[i].path = "imm" /\ req[i].attempts = 1

\* Some request for endpoint e has been submitted and has not settled.
HasOutstanding(e) == \E i \in Req : req[i].ep = e /\ Outstanding(req[i])

\* The request submitted last for endpoint e.
LastSubmitted(e) ==
    CHOOSE i \in Req :
        /\ req[i].ep = e
        /\ \A j \in Req : req[j].ep = e => j <= i

\* C12: queue cleanup.  Whenever no request for an endpoint is outstanding
\* (all its requests have settled and their finally blocks have run),
\* queueCollection has no entry for the endpoint.
C12_QueueCleanup ==
    \A e \in Endpoints : ~HasOutstanding(e) => ~Has(queueCollection, e)

C12_Witness ==
    \E i, j \in Req :
        /\ i # j /\ req[i].ep = req[j].ep
        /\ req[i].pc = "rejected" /\ req[i].path = "exp"
        /\ req[j].pc = "resolved" /\ req[j].n429 >= 1
        /\ ~HasOutstanding(req[i].ep)
        /\ ~Has(queueCollection, req[i].ep)

\* C14: removal of the queue entry is conditional.  Whenever a request for
\* an endpoint is outstanding, queueCollection holds for the endpoint the
\* tail of the request submitted last for it (the entry goes only when the
\* request that owns the stored tail settles).
C14_TailOfLastSubmitted ==
    \A e \in Endpoints :
        HasOutstanding(e) =>
            /\ Has(queueCollection, e)
            /\ queueCollection[e] = LastSubmitted(e)

\* C15: a lockout is cleared by a confirming success.  When a transport call
\* for an endpoint returns a response with remaining quota not 0 (and a
\* status that is not 429), the rate-limit cache holds no entry for the
\* endpoint after the step, whatever path the attempt took.
C15_ClearedBySuccess ==
    [][\A j \in Req : \A o \in OkOutcomes(now) :
          (~RateLimited(o, o.status) /\ ResponseOk(j, o))
          => ~Has(rateLimitCollection', req[j].ep)]_vars

\* C17: frame of the cache update.  (a) A response with remaining quota not 0
\* and status not 429 handled with edit = false (immediate path) leaves the
\* whole cache unchanged; (b) handled with edit = true it removes at most the
\* entry of the endpoint of the call; (c) the 'global' entry is never removed;
\* (d) the 'global' entry is written only on a rate-limited response marked
\* global; (e) a response never touches the entry of another endpoint, and a
\* step that handles no response leaves the cache unchanged.
C17_CacheFrame ==
    [][/\ \A j \in Req : \A o \in OkOutcomes(now) :
             (~RateLimited(o, o.status) /\ ResponseOk(j, o))
             => IF req[j].path = "imm"
                THEN rateLimitCollection' = rateLimitCollection
                ELSE rateLimitCollection' = MapDelete(rateLimitCollection, req[j].ep)
       /\ Has(rateLimitCollection, GlobalKey) => Has(rateLimitCollection', GlobalKey)
       /\ ~EntryUnchanged(GlobalKey)
             => \E j \in Req : \E o \in Outcomes(now) :
                    RateLimited(o, o.status) /\ o.global /\ Receives(j, o)
       /\ \A e \in Endpoints :
             ~EntryUnchanged(e)
             => \E j \in Req : \E o \in Outcomes(now) :
                    req[j].ep = e /\ Receives(j, o)]_vars

\* A confirming success on the expired-lockout path has removed the entry of
\* its endpoint while the 'global' entry stays.
C17_Witness ==
    \E i \in Req :
        /\ req[i].pc = "resolved" /\ req[i].path = "exp"
        /\ req[i].result.status = 200
        /\ ~Has(rateLimitCollection, req[i].ep)
        /\ Has(rateLimitCollection, GlobalKey)

\* nextUnlock: the later of the stored endpoint and global timestamps.
UnlockAt(c, e) == Max(GetOr0(c, e), GetOr0(c, GlobalKey))

\* Request i enters conditionalsHandler in this step (on submission, behind
\* a settled predecessor, after setTimeout 0, or from the timer's catch).
Enters(i) ==
    /\ req[i].pc \in {"new", "queued", "retry", "flight"}
    /\ req'[i].pc \in {"flight", "timer"}
    /\ req'[i] # req[i]

\* C16: timer-fire behaviour.  (a) A request that enters the scheduler while
\* unlockAt, the later of the stored endpoint and global timestamps, is in
\* the future arms a timer due at unlockAt and makes no call; (b) when the
\* timer fires the call is made in that step, the cache being neither
\* consulted nor changed; (c) a 429 on that call records the lockout and
\* enters the scheduler again for the same request.
C16_TimerFire ==
    [][/\ \A i \in Req :
             (Enters(i) /\ UnlockAt(rateLimitCollection', req'[i].ep) > now)
             => /\ req'[i].pc = "timer"
                /\ req'[i].fireAt = UnlockAt(rateLimitCollection', req'[i].ep)
                /\ ~Starts(i)
       /\ \A i \in Req :
             TimerFire(i)
             => /\ Starts(i) /\ req'[i].pc = "flight"
                /\ rateLimitCollection' = rateLimitCollection
       /\ \A i \in Req : \A o \in ErrOutcomes(now) :
             (req[i].path = "tmr" /\ o.status = 429 /\ Receives(i, o))
             => /\ rateLimitCollection' =
                     SetOrEditRateLimitCache(rateLimitCollection, req[i].ep, o,
                                             FALSE, 429, now)
                /\ req'[i] = ConditionalsHandler(Reenter(Ended(req[i], o)),
                                                 rateLimitCollection', now)]_vars

\* C11: retry payload identity.  Every transport call made for a request,
\* the first and each one after a 429, on any path, carries the URL, method,
\* headers and body of the first call, which are those request() was given.
C11_PayloadIdentity ==
    \A i \in Req :
        req[i].attempts >= 1 =>
            /\ req[i].sent = req[i].firstSent
            /\ req[i].firstSent = Payload(RequestArgs(req[i].ep, i))

\* Two requests have each been answered 429 and called again with the name
\* left out; one of the second calls was made from a timer callback.
C11_Witness ==
    \E i, j \in Req :
        /\ i # j
        /\ req[i].attempts >= 2 /\ req[i].path = "tmr"
        /\ req[j].attempts >= 2 /\ Settled(req[j])
        /\ req[i].args.name = "undefined" /\ req[j].args.name = "undefined"

\* The number of times request() was invoked for the webhook at position k.
TimesCalled(k) == Cardinality({n \in 1..Len(relay.called) : relay.called[n] = k})

\* C13: relay to all destinations.  When the handling of an authorized
\* event has ended, request() has been invoked exactly once for every
\* configured webhook that has id and token (and for no other), whether
\* the requests before it were fulfilled or rejected.
C13_RelayToAll ==
    (relay.pc = "done" /\ relay.authorized) =>
        \A k \in 1..Len(relay.webhooks) :
            TimesCalled(k) = IF Valid(relay.webhooks[k]) THEN 1 ELSE 0

\* C18: eventual settlement.  When every transport call returns, every
\* timer fires and a request is answered 429 at most MaxRetry times, every
\* submitted request settles, and every request queued behind another
\* makes its first transport call.
C18_EventuallySettles ==
    \A i \in Req :
        /\ Submitted(i) ~> Settled(req[i])
        /\ (req[i].pc = "queued") ~> (req[i].attempts >= 1)

\* A request that waited in the queue, then for a timer, and was answered
\* 429 once has settled behind a rejected predecessor.
C18_Witness ==
    \E i, j \in Req :
        /\ req[i].pred = j
        /\ req[j].pc = "rejected"
        /\ Settled(req[i])
        /\ req[i].n429 >= 1
        /\ req[i].path = "tmr"

====
